---- MODULE Spec2Model ----
(***************************************************************************)
(* Quine-McCluskey minimisation of kjarosh/python-logic-simplifier:       *)
(* logic_simplifier/perm.py (Permutation, ReducedPermutation) and          *)
(* logic_simplifier/simplifier.py (SimplificationTable).                   *)
(*                                                                         *)
(* Python values are encoded as follows.                                   *)
(*   - A Permutation is a function from the variables to "True", "False"   *)
(*     or "None" (don't care).                                             *)
(*   - A ReducedPermutation is a record [perms, reduced].                  *)
(*   - An optional value (x or Python's None) is the set {x} or {}.        *)
(*   - A dict whose iteration order the code depends on is a sequence of   *)
(*     its items; a dict used only as a mapping is a function.             *)
(*   - Iterating a Python set has no order the program fixes: wherever the *)
(*     result depends on it the order is chosen nondeterministically.      *)
(***************************************************************************)
EXTENDS Integers, Sequences, FiniteSets, TLC

\* Largest number of variables of the expression.
NumVars == 3

\* Largest number of minterms (positives) handed to group_values.
MaxMinterms == 6

VARIABLES
    varlist,    \* the variables of the expression
    pc,         \* position of main(): "fill", "filled", "done"; "test"/"tested" in _test()
    minterms,   \* the positives given to group_values
    stages,     \* SimplificationTable._stages
    processed,  \* the objects carrying the attribute 'processed': <<stage index, object>>
    grouped,    \* the dict grouped_results() handed to _minimal_results_for
    minimal,    \* the list minimal_results() returned
    ta, tb,     \* the two reduced permutations _test() builds
    tout        \* what a.reduce(b) returned in _test()

vars == <<varlist, pc, minterms, stages, processed, grouped, minimal, ta, tb, tout>>

----------------------------------------------------------------------------
(* perm.py *)

\* The values a variable can hold in a Permutation.
Values == {"True", "False", "None"}

\* Every permutation of the variables, don't cares included.
Patterns(vs) == [vs -> Values]

\* Permutation.generate_values: every full assignment of the variables.
generate_values(vs) == [vs -> {"True", "False"}]

\* Permutation.count_positives: 'if v' holds for True only.
count_positives(p) == Cardinality({k \in DOMAIN p : p[k] = "True"})

\* ReducedPermutation.from_permutation
from_permutation(perm) == [perms |-> {perm}, reduced |-> perm]

\* reduce_loop without 'elif reduced: return None': any number of
\* differing variables is merged.
RECURSIVE reduce_loop_any_difference(_, _, _, _, _)
reduce_loop_any_difference(self, p, keys, ret, reduced) ==
    IF keys = {}
    THEN {[perms |-> self.perms \cup p.perms, reduced |-> ret]}
    ELSE LET key  == CHOOSE k \in keys : TRUE
             val1 == p.reduced[key]
             val2 == self.reduced[key]
         IN  IF val1 = val2
             THEN reduce_loop_any_difference(self, p, keys \ {key}, ret @@ (key :> val1), reduced)
             ELSE reduce_loop_any_difference(self, p, keys \ {key}, ret @@ (key :> "None"), TRUE)

\* reduce_loop keeping the value of p on the differing variable instead of
\* setting it to None.
RECURSIVE reduce_loop_keeps_value(_, _, _, _, _)
reduce_loop_keeps_value(self, p, keys, ret, reduced) ==
    IF keys = {}
    THEN {[perms |-> self.perms \cup p.perms, reduced |-> ret]}
    ELSE LET key  == CHOOSE k \in keys : TRUE
             val1 == p.reduced[key]
             val2 == self.reduced[key]
         IN  IF val1 = val2
             THEN reduce_loop_keeps_value(self, p, keys \ {key}, ret @@ (key :> val1), reduced)
             ELSE IF reduced
                  THEN {}
                  ELSE reduce_loop_keeps_value(self, p, keys \ {key}, ret @@ (key :> val1), TRUE)

\* reduce_loop returning the _perms of self alone instead of the union.
RECURSIVE reduce_loop_own_perms(_, _, _, _, _)
reduce_loop_own_perms(self, p, keys, ret, reduced) ==
    IF keys = {}
    THEN {[perms |-> self.perms, reduced |-> ret]}
    ELSE LET key  == CHOOSE k \in keys : TRUE
             val1 == p.reduced[key]
             val2 == self.reduced[key]
         IN  IF val1 = val2
             THEN reduce_loop_own_perms(self, p, keys \ {key}, ret @@ (key :> val1), reduced)
             ELSE IF reduced
                  THEN {}
                  ELSE reduce_loop_own_perms(self, p, keys \ {key}, ret @@ (key :> "None"), TRUE)

\* The loop of ReducedPermutation.reduce over the keys still to visit.
\* 'ret' is the dict built so far, 'reduced' the flag.  Returns {} for None.
RECURSIVE reduce_loop(_, _, _, _, _)
reduce_loop(self, p, keys, ret, reduced) ==
    IF keys = {}
    THEN {[perms |-> self.perms \cup p.perms, reduced |-> ret]}
    ELSE LET key  == CHOOSE k \in keys : TRUE
             val1 == p.reduced[key]
             val2 == self.reduced[key]
         IN  IF val1 = val2
             THEN reduce_loop(self, p, keys \ {key}, ret @@ (key :> val1), reduced)
             ELSE IF reduced
                  THEN {}
                  ELSE reduce_loop(self, p, keys \ {key}, ret @@ (key :> "None"), TRUE)

\* ReducedPermutation.reduce(self, p): {} when it returns None.
reduce(self, p) ==
    LET keys == DOMAIN self.reduced \cup DOMAIN p.reduced
    IN  reduce_loop(self, p, keys, <<>>, FALSE)

----------------------------------------------------------------------------
(* simplifier.py: generation of the stages *)

\* SimplificationTable.group_values: stage 0, the positives bucketed by
\* their number of ones.
group_values(values) ==
    LET gids == {count_positives(val) : val \in values}
    IN  <<[gid \in gids |->
            {from_permutation(val) : val \in {v \in values : count_positives(v) = gid}}]>>

\* The pairs next_stage hands to reduce for group gid of a stage.
pairs_of(stage, gid) ==
    IF (gid + 1) \in DOMAIN stage THEN stage[gid] \X stage[gid + 1] ELSE {}

\* The reduced permutations next_stage adds to newstage[gid].
merged_of(stage, gid) ==
    UNION {reduce(pr[1], pr[2]) : pr \in pairs_of(stage, gid)}

\* newstage_of adding to newstage[gid + 1] instead of newstage[gid].
newstage_of_upper_key(stage) ==
    [gid \in {g + 1 : g \in {h \in DOMAIN stage : merged_of(stage, h) # {}}} |->
        merged_of(stage, gid - 1)]

\* The dict 'newstage' at the end of the loops of next_stage; a key exists
\* only where something was added (defaultdict).
newstage_of(stage) ==
    [gid \in {g \in DOMAIN stage : merged_of(stage, g) # {}} |-> merged_of(stage, gid)]

\* marked_of without 'perm2.processed = True'.
marked_of_first_only(stage) ==
    UNION {{pr[1]} : pr \in {q \in UNION {pairs_of(stage, g) : g \in DOMAIN stage} :
                                  reduce(q[1], q[2]) # {}}}

\* The objects of a stage that next_stage marks with 'processed'.
marked_of(stage) ==
    UNION {{pr[1], pr[2]} : pr \in {q \in UNION {pairs_of(stage, g) : g \in DOMAIN stage} :
                                        reduce(q[1], q[2]) # {}}}

\* SimplificationTable.each_permutation: every object of every stage.
each_permutation(stgs) ==
    UNION {UNION {{<<i, perm>> : perm \in stgs[i][gid]} : gid \in DOMAIN stgs[i]} :
           i \in 1..Len(stgs)}

\* SimplificationTable.results: the objects without the attribute 'processed'.
results(stgs, proc) ==
    {ip[2] : ip \in {q \in each_permutation(stgs) : q \notin proc}}

----------------------------------------------------------------------------
(* simplifier.py: the cover solver *)

\* The orders in which 'for f in reduced._perms' can visit the keys that are
\* not yet in the dict: every arrangement of them.
RECURSIVE arrangements(_)
arrangements(S) ==
    IF S = {} THEN {<<>>}
    ELSE UNION {{<<x>> \o rest : rest \in arrangements(S \ {x})} : x \in S}

\* The range of a sequence.
Range(seq) == {seq[i] : i \in 1..Len(seq)}

\* The key orders grouped_results can build: the loop over results() visits
\* the reduced permutations 'todo' in some order, and each inserts the keys
\* of its _perms that are new, in some order.
RECURSIVE key_orders(_, _)
key_orders(todo, keys) ==
    IF todo = {} THEN {keys}
    ELSE UNION {UNION {key_orders(todo \ {red}, keys \o new) :
                       new \in arrangements(red.perms \ Range(keys))} :
                red \in todo}

\* SimplificationTable.grouped_results for one key order: the items
\* (permutation, set of the reduced permutations whose _perms hold it).
grouped_results(res, keys) ==
    [i \in 1..Len(keys) |->
        [perm |-> keys[i], reduced |-> {red \in res : keys[i] \in red.perms}]]

\* exclude_loop with 'len(reduced) <= 1' for 'len(reduced) == 0'.
RECURSIVE exclude_loop_drops_single(_, _, _)
exclude_loop_drops_single(grpd, to_exclude, i) ==
    IF i > Len(grpd) THEN <<>>
    ELSE LET reduced == grpd[i].reduced
             rest    == exclude_loop_drops_single(grpd, to_exclude, i + 1)
         IN  IF Cardinality(reduced) <= 1 \/ to_exclude \in reduced
             THEN rest
             ELSE <<grpd[i]>> \o rest

\* The items of 'grouped' from position i on that _exclude_reduced keeps.
RECURSIVE exclude_loop(_, _, _)
exclude_loop(grpd, to_exclude, i) ==
    IF i > Len(grpd) THEN <<>>
    ELSE LET reduced == grpd[i].reduced
             rest    == exclude_loop(grpd, to_exclude, i + 1)
         IN  IF Cardinality(reduced) = 0 \/ to_exclude \in reduced
             THEN rest
             ELSE <<grpd[i]>> \o rest

\* SimplificationTable._exclude_reduced: a copy of 'grouped' without the
\* groups that hold to_exclude (or are empty); the order of the rest is kept.
exclude_reduced(grpd, to_exclude) == exclude_loop(grpd, to_exclude, 1)

\* The first loop of _extract_essentials from item i on: the final value of
\* min_reduced.  min_degree is compared but never assigned.
RECURSIVE min_reduced_loop(_, _, _, _)
min_reduced_loop(grpd, i, min_degree, min_reduced) ==
    IF i > Len(grpd) THEN min_reduced
    ELSE LET reduced == grpd[i].reduced
         IN  IF min_degree = {} \/ (\E d \in min_degree : Cardinality(reduced) < d)
             THEN min_reduced_loop(grpd, i + 1, min_degree, {reduced})
             ELSE min_reduced_loop(grpd, i + 1, min_degree, min_reduced)

\* SimplificationTable._extract_essentials: the dict essential -> grouped
\* without the groups of that essential; the empty dict when min_reduced is None.
extract_essentials(grpd) ==
    LET min_reduced == min_reduced_loop(grpd, 1, {}, {})
    IN  [essential \in UNION min_reduced |-> exclude_reduced(grpd, essential)]

\* _default_measure: the sum over the result of the number of keys of the
\* reduced form.
RECURSIVE default_measure(_)
default_measure(res) ==
    IF Len(res) = 0 THEN 0
    ELSE Cardinality(DOMAIN Head(res).reduced) + default_measure(Tail(res))

\* self.measure
measure(res) == default_measure(res)

\* minimal_loop with '>' for '<' in the comparison of the measures.
RECURSIVE minimal_loop_keeps_costliest(_, _, _)
minimal_loop_keeps_costliest(todo, sub, min_res) ==
    IF todo = {}
    THEN IF min_res # {} THEN min_res ELSE {<<>>}
    ELSE UNION {UNION {LET res == Append(r, essential)
                       IN  IF min_res = {} \/
                              (\E m \in min_res : measure(res) > measure(m))
                           THEN minimal_loop_keeps_costliest(todo \ {essential}, sub, {res})
                           ELSE minimal_loop_keeps_costliest(todo \ {essential}, sub, min_res) :
                       r \in sub[essential]} :
                essential \in todo}

\* minimal_loop without 'res.append(essential)'.
RECURSIVE minimal_loop_no_append(_, _, _)
minimal_loop_no_append(todo, sub, min_res) ==
    IF todo = {}
    THEN IF min_res # {} THEN min_res ELSE {<<>>}
    ELSE UNION {UNION {LET res == r
                       IN  IF min_res = {} \/
                              (\E m \in min_res : measure(res) < measure(m))
                           THEN minimal_loop_no_append(todo \ {essential}, sub, {res})
                           ELSE minimal_loop_no_append(todo \ {essential}, sub, min_res) :
                       r \in sub[essential]} :
                essential \in todo}

\* The loop of _minimal_results_for over the essentials not yet visited;
\* sub[e] is the set of lists the recursive call for e can return.  The dict
\* of essentials is filled in the iteration order of a set, so any essential
\* can come next.  The set of the lists the function can return.
RECURSIVE minimal_loop(_, _, _)
minimal_loop(todo, sub, min_res) ==
    IF todo = {}
    THEN IF min_res # {} THEN min_res ELSE {<<>>}
    ELSE UNION {UNION {LET res == Append(r, essential)
                       IN  IF min_res = {} \/
                              (\E m \in min_res : measure(res) < measure(m))
                           THEN minimal_loop(todo \ {essential}, sub, {res})
                           ELSE minimal_loop(todo \ {essential}, sub, min_res) :
                       r \in sub[essential]} :
                essential \in todo}

\* SimplificationTable._minimal_results_for: every list it can return.
RECURSIVE minimal_results_for(_)
minimal_results_for(grpd) ==
    LET extracted == extract_essentials(grpd)
        sub == [essential \in DOMAIN extracted |->
                    minimal_results_for(extracted[essential])]
    IN  minimal_loop(DOMAIN extracted, sub, {})

\* Every dict _minimal_results_for is called with, the recursive calls included.
RECURSIVE solver_calls(_)
solver_calls(grpd) ==
    LET extracted == extract_essentials(grpd)
    IN  {grpd} \cup UNION {solver_calls(extracted[essential]) :
                           essential \in DOMAIN extracted}

----------------------------------------------------------------------------
(* The runs: main() of simplifier.py and _test() of perm.py *)

\* A value for the variables a run does not use.
Unused == <<>>

\* main() up to for_expr: the table built from the positives of an expression.
Init ==
    /\ pc = "fill"
    /\ varlist \in {1..n : n \in 0..NumVars}
    /\ minterms \in {S \in SUBSET generate_values(varlist) : Cardinality(S) <= MaxMinterms}
    /\ stages = group_values(minterms)
    /\ processed = {}
    /\ grouped = Unused
    /\ minimal = Unused
    /\ ta = Unused /\ tb = Unused /\ tout = Unused

\* One iteration of the loop of fill_stages: a call of next_stage.
NextStage ==
    /\ pc = "fill"
    /\ LET stage    == stages[Len(stages)]
           newstage == newstage_of(stage)
       IN  /\ processed' = processed \cup {<<Len(stages), perm>> : perm \in marked_of(stage)}
           /\ IF DOMAIN newstage # {}
              THEN stages' = Append(stages, newstage) /\ pc' = "fill"
              ELSE stages' = stages /\ pc' = "filled"
    /\ UNCHANGED <<varlist, minterms, grouped, minimal, ta, tb, tout>>

\* minimal_results(): grouped_results() and the solver.
MinimalResults ==
    /\ pc = "filled"
    /\ \E keys \in key_orders(results(stages, processed), <<>>) :
          /\ grouped' = grouped_results(results(stages, processed), keys)
          /\ minimal' \in minimal_results_for(grouped')
    /\ pc' = "done"
    /\ UNCHANGED <<varlist, minterms, stages, processed, ta, tb, tout>>

Next == NextStage \/ MinimalResults

Spec == Init /\ [][Next]_vars

\* _test(): two reduced permutations built by from_permutation from
\* permutations that may hold None, as its third and fourth cases do.
TestInit ==
    /\ pc = "test"
    /\ varlist = 1..NumVars
    /\ ta \in {from_permutation(p) : p \in Patterns(varlist)}
    /\ tb \in {from_permutation(p) : p \in Patterns(varlist)}
    /\ tout = Unused
    /\ minterms = {} /\ stages = Unused /\ processed = {}
    /\ grouped = Unused /\ minimal = Unused

\* print(a.reduce(b))
TestReduce ==
    /\ pc = "test"
    /\ tout' = reduce(ta, tb)
    /\ pc' = "tested"
    /\ UNCHANGED <<varlist, minterms, stages, processed, grouped, minimal, ta, tb>>

TestNext == TestReduce

TestSpec == TestInit /\ [][TestNext]_vars

----------------------------------------------------------------------------
(* Notions the properties are stated with *)

\* The permutation 'a' is consistent with the pattern: it has the value of
\* every variable the pattern fixes.
Consistent(pattern, a) ==
    \A k \in DOMAIN pattern : pattern[k] = "None" \/ pattern[k] = a[k]

\* The full assignments consistent with a pattern.
CoveredBy(pattern) == {a \in generate_values(varlist) : Consistent(pattern, a)}

\* The variables on which a pattern holds don't care.
DontCares(pattern) == {k \in DOMAIN pattern : pattern[k] = "None"}

\* The number of literals of a pattern read as a conjunction.
Literals(pattern) == Cardinality(DOMAIN pattern \ DontCares(pattern))

\* The number of literals of a list of reduced permutations.
RECURSIVE LiteralCount(_)
LiteralCount(res) ==
    IF Len(res) = 0 THEN 0 ELSE Literals(Head(res).reduced) + LiteralCount(Tail(res))

\* The members of a list.
Members(list) == {list[i] : i \in 1..Len(list)}

\* The minterms of the _perms of the members of a set of reduced permutations.
Provenance(S) == UNION {red.perms : red \in S}

\* Every object of every stage, without its stage index.
AllImplicants == {ip[2] : ip \in each_permutation(stages)}

\* A set of reduced permutations as a list, in some order.
RECURSIVE ListOf(_)
ListOf(S) ==
    IF S = {} THEN <<>>
    ELSE LET x == CHOOSE y \in S : TRUE IN <<x>> \o ListOf(S \ {x})

\* A pattern all of whose assignments are minterms.
IsImplicant(pattern) == CoveredBy(pattern) \subseteq minterms

\* q has the values of p except that it holds don't care on more variables.
Coarser(q, p) ==
    /\ q # p
    /\ \A k \in DOMAIN p : q[k] = p[k] \/ q[k] = "None"

\* The prime implicants of the function given by the minterms.
PrimeImplicants ==
    {[perms |-> CoveredBy(p), reduced |-> p] :
        p \in {q \in Patterns(varlist) :
                  /\ IsImplicant(q)
                  /\ ~ \E c \in Patterns(varlist) : Coarser(c, q) /\ IsImplicant(c)}}

\* The variables on which two patterns differ.
Differences(p, q) == {k \in DOMAIN p : p[k] # q[k]}

\* Two patterns agree on every variable but one, which is True in one and
\* False in the other.
MergeAdjacent(p, q) ==
    /\ Cardinality(Differences(p, q)) = 1
    /\ \A k \in Differences(p, q) : p[k] # "None" /\ q[k] # "None"

\* The groups of 'grpd' of the least size.
MinimalGroups(grpd) ==
    {i \in 1..Len(grpd) :
        \A j \in 1..Len(grpd) : Cardinality(grpd[i].reduced) <= Cardinality(grpd[j].reduced)}

----------------------------------------------------------------------------
(* The properties *)

\* C1 Semantic equivalence: the disjunction of the patterns of the list
\* minimal_results() returned, each read as the conjunction of its literals,
\* is true on exactly the minterms (the empty list is constant false).
C1_SemanticEquivalence ==
    pc = "done" =>
        \A a \in generate_values(varlist) :
            (\E red \in Members(minimal) : Consistent(red.reduced, a)) <=> a \in minterms

\* C1 witness: a returned cover of two implicants, one of them merged, for
\* a function that is neither constant.
C1_Witness ==
    /\ pc = "done"
    /\ Len(minimal) >= 2
    /\ \E red \in Members(minimal) : DontCares(red.reduced) # {}
    /\ minterms # generate_values(varlist)

\* C2 Cost minimality: no subset of results() whose _perms jointly hold
\* every minterm costs less under self.measure than the returned list.
C2_CostMinimality ==
    pc = "done" =>
        \A cover \in SUBSET results(stages, processed) :
            minterms \subseteq Provenance(cover) =>
                measure(minimal) <= measure(ListOf(cover))

\* C2 witness: the solver had a choice: some cover of prime implicants
\* costs strictly more than the returned one and the dict handed to the
\* solver ends with a group of several candidates.
C2_Witness ==
    /\ pc = "done"
    /\ Len(grouped) > 0
    /\ Cardinality(grouped[Len(grouped)].reduced) >= 2
    /\ \E cover \in SUBSET results(stages, processed) :
          /\ minterms \subseteq Provenance(cover)
          /\ measure(minimal) < measure(ListOf(cover))
          /\ ~ (Members(minimal) \subseteq cover)

\* C3 Default measure: the cost of the returned cover is its number of
\* literals, don't care positions not counted.
C3_LiteralCount ==
    pc = "done" => measure(minimal) = LiteralCount(minimal)

\* C4 Completeness: the union of the _perms of the returned implicants is
\* the set of minterms given to group_values.
C4_Completeness ==
    pc = "done" => Provenance(Members(minimal)) = minterms

\* C4 witness: a returned cover that leaves out a prime implicant and whose
\* members overlap.
C4_Witness ==
    /\ pc = "done"
    /\ Members(minimal) # results(stages, processed)
    /\ \E r1, r2 \in Members(minimal) : r1 # r2 /\ r1.perms \cap r2.perms # {}

\* C5 Prime implicants: once fill_stages() has returned, results() is
\* exactly the set of the prime implicants of the function.
C5_ResultsArePrimes ==
    pc \in {"filled", "done"} => results(stages, processed) = PrimeImplicants

\* C5 witness: results() gathers implicants from two stages and leaves
\* out the objects of the two earlier stages that were merged.
C5_Witness ==
    /\ pc = "filled"
    /\ Len(stages) = 3
    /\ \A i \in 1..2 : \E ip \in processed : ip[1] = i
    /\ \E r1, r2 \in results(stages, processed) :
          /\ Cardinality(DontCares(r1.reduced)) = 1
          /\ Cardinality(DontCares(r2.reduced)) = 2

\* C6 Essentiality: a prime implicant that is alone in the group of some
\* minterm is a member of the returned cover.
C6_Essentiality ==
    pc = "done" =>
        \A i \in 1..Len(grouped) :
            Cardinality(grouped[i].reduced) = 1 =>
                grouped[i].reduced \subseteq Members(minimal)

\* C6 witness: a group of one prime implicant next to groups of several,
\* with a prime implicant that is not returned.
C6_Witness ==
    /\ pc = "done"
    /\ \E i, j \in 1..Len(grouped) :
          /\ Cardinality(grouped[i].reduced) = 1
          /\ Cardinality(grouped[j].reduced) >= 2
    /\ Members(minimal) # results(stages, processed)

\* At most |V| stages are appended to stage 0, and every implicant of an
\* appended stage comes from a merge of two implicants of the stage before
\* and has strictly more don't cares than both.
C7_Coarsening ==
    /\ Len(stages) <= Cardinality(varlist) + 1
    /\ \A i \in 2..Len(stages) : \A gid \in DOMAIN stages[i] : \A red \in stages[i][gid] :
          /\ \E pr \in pairs_of(stages[i - 1], gid) : red \in reduce(pr[1], pr[2])
          /\ \A g \in DOMAIN stages[i - 1] : \A pr \in pairs_of(stages[i - 1], g) :
                red \in reduce(pr[1], pr[2]) =>
                    /\ Cardinality(DontCares(red.reduced)) > Cardinality(DontCares(pr[1].reduced))
                    /\ Cardinality(DontCares(red.reduced)) > Cardinality(DontCares(pr[2].reduced))

\* C7 Generation terminates: fill_stages() returns, next_stage() having
\* appended at most |V| stages to stage 0, each of implicants with strictly
\* more don't cares than the implicants they were merged from.
C7_Terminates == []C7_Coarsening /\ <>(pc # "fill")

\* C7 witness: fill_stages() returned with |V| stages appended, for two
\* variables or more.
C7_Witness ==
    /\ pc = "filled"
    /\ Cardinality(varlist) >= 2
    /\ Len(stages) = Cardinality(varlist) + 1

\* C8 reduce: a.reduce(b) returns a reduced permutation exactly when the
\* two patterns are merge-adjacent, and then its _perms is the union of both
\* and its pattern that of a with the differing variable set to don't care.
C8_ReduceIffAdjacent ==
    pc = "tested" =>
        IF MergeAdjacent(ta.reduced, tb.reduced)
        THEN tout = {[perms   |-> ta.perms \cup tb.perms,
                      reduced |-> [k \in DOMAIN ta.reduced |->
                                     IF k \in Differences(ta.reduced, tb.reduced)
                                     THEN "None" ELSE ta.reduced[k]]]}
        ELSE tout = {}

\* C9 Implicant invariant: for every implicant of every stage, _perms is
\* the set of the full assignments consistent with the pattern, all of them
\* minterms, and the pattern holds don't care exactly where they disagree
\* and their shared value elsewhere.
C9_ImplicantInvariant ==
    pc \in {"fill", "filled", "done"} =>
        \A red \in AllImplicants :
            /\ red.perms = CoveredBy(red.reduced)
            /\ red.perms \subseteq minterms
            /\ \A k \in DOMAIN red.reduced :
                  IF \E a, b \in red.perms : a[k] # b[k]
                  THEN red.reduced[k] = "None"
                  ELSE \A a \in red.perms : red.reduced[k] = a[k]

\* C9 witness: an implicant that is the merge of merges.
C9_Witness ==
    /\ Len(stages) >= 3
    /\ \E red \in AllImplicants : Cardinality(red.perms) = 4

\* C10 Branch candidates: at every call of the solver with a dict that is
\* not empty, the candidates _extract_essentials returns are the members of
\* a group of the least size.
C10_MinimalGroup ==
    pc = "done" =>
        \A grpd \in solver_calls(grouped) :
            Len(grpd) > 0 =>
                \E i \in MinimalGroups(grpd) :
                    DOMAIN extract_essentials(grpd) = grpd[i].reduced

----------------------------------------------------------------------------
(* The solver called on a coverage relation of its caller's making *)

\* Number of variables of the coverage relations handed to the solver.
SolverVars == 2

\* Largest number of reduced permutations of such a coverage relation.
MaxCandidates == 3

\* _minimal_results_for(grouped) with a dict in the format of
\* grouped_results(): one item per minterm, in some order, whose set holds
\* the reduced permutations of 'res' with the minterm in their _perms.  'res'
\* is any set of implicants of the function, so a minterm none of them
\* holds has an empty set.
SolverInit ==
    /\ pc = "solve"
    /\ varlist = 1..SolverVars
    /\ minterms \in SUBSET generate_values(varlist)
    /\ \E res \in SUBSET {[perms |-> CoveredBy(p), reduced |-> p] :
                              p \in {q \in Patterns(varlist) : IsImplicant(q)}} :
          /\ Cardinality(res) <= MaxCandidates
          /\ \E keys \in arrangements(minterms) :
                grouped = grouped_results(res, keys)
    /\ minimal = Unused
    /\ stages = Unused /\ processed = {}
    /\ ta = Unused /\ tb = Unused /\ tout = Unused

\* The call returns a list: no statement of _minimal_results_for,
\* _extract_essentials or _exclude_reduced raises or asserts.
SolverReturn ==
    /\ pc = "solve"
    /\ minimal' \in minimal_results_for(grouped)
    /\ pc' = "returned"
    /\ UNCHANGED <<varlist, minterms, stages, processed, grouped, ta, tb, tout>>

SolverNext == SolverReturn

SolverSpec == SolverInit /\ [][SolverNext]_vars

\* C11 Solver inconsistency is fatal: run on a coverage relation in which a
\* minterm has no candidate implicant (an empty group), the solver does not
\* return a cover.
C11_EmptyGroupIsFatal ==
    (\E i \in 1..Len(grouped) : grouped[i].reduced = {}) => pc # "returned"

\* C12 Stage shape: every implicant of stage k (stage 0 first) has exactly
\* k don't cares and sits in the bucket whose key is the number of True
\* values of its pattern; hence every pair of adjacent buckets that reduce()
\* merges differs in exactly one variable, True in one pattern and False in
\* the other.
C12_StageShape ==
    pc \in {"fill", "filled", "done"} =>
        \A i \in 1..Len(stages) : \A gid \in DOMAIN stages[i] :
            /\ \A red \in stages[i][gid] :
                  /\ Cardinality(DontCares(red.reduced)) = i - 1
                  /\ count_positives(red.reduced) = gid
            /\ \A pr \in pairs_of(stages[i], gid) :
                  reduce(pr[1], pr[2]) # {} => MergeAdjacent(pr[1].reduced, pr[2].reduced)

\* C12 witness: a third stage exists, so next_stage() merged pairs of
\* patterns that hold a don't care, and a stage past stage 0 has an
\* implicant in a bucket other than bucket 0.
C12_Witness ==
    /\ Len(stages) >= 3
    /\ \E ip \in processed : ip[1] = 2
    /\ \E i \in 2..Len(stages) : \E gid \in DOMAIN stages[i] : gid >= 1

\* main() with the loop of fill_stages running to its end.
FairSpec == Spec /\ WF_vars(NextStage)

====
